---- MODULE Spec2Model ----
(***************************************************************************)
(* Model of gin-app-start's two stateful components:                       *)
(*   - middleware.rateLimiter  (token bucket with lazy refill and sweep)   *)
(*   - service.orderService    (cache-aside order reads and writes)        *)
(* Time is counted in ticks, TicksPerSec ticks to the second.              *)
(***************************************************************************)
EXTENDS Integers, Sequences, FiniteSets, TLC

\* ------------------------------------------------------------------ bounds
MaxRate == 3
TicksPerSec == 2
MaxTicks == 3
MaxCalls == 5
MaxConcCalls == 3
MaxConcTicks == 2
MaxPrice == 2
MaxFaults == 1
MaxReqs == 3
IntBits == 16

\* --------------------------------------------------------- program constants
RetentionSeconds == 300
ListCacheSeconds == 1800

Keys == {"A", "B"}
Procs == {"g1", "g2"}
Sweeper == "cleanup"
RetentionTicks == RetentionSeconds * TicksPerSec
TickSteps == {1, TicksPerSec, MaxRate * TicksPerSec, RetentionTicks,
              RetentionTicks + 1}

DefaultPage == 1
DefaultPageSize == 10
MaxPageSize == 100
AdminName == "admin"
OrderNumbers == {"EC1"}
Users == {AdminName, "bob"}
Prices == 0..MaxPrice
ListArgs == {<<"bob", 1, 1>>, <<AdminName, 0, 0>>}

None == "none"

TooManyRequests == 42900
Reqs == {"r1", "r2"}
Routes == {"orders", "health"}

VARIABLES
    rate,        \* rateLimiter.rate
    now,         \* value time.Now() returns, in ticks
    lastAccess,  \* rateLimiter.lastAccess : key -> time (a Go map: partial)
    tokens,      \* rateLimiter.tokens     : key -> int  (a Go map: partial)
    rlLast,      \* the last allow() call and what it did
    burst,       \* per key: allow() calls made at the instant the bucket was created
    ticks,       \* number of clock advances so far
    purged       \* keys cleanup() deleted that allow() has not seen since

rlVars == <<rate, now, lastAccess, tokens, rlLast, burst, ticks, purged>>

\* the same limiter, one goroutine per request and the cleanup goroutine,
\* one step per statement group of allow() and cleanup()
VARIABLES
    mu,          \* rateLimiter.mu: the goroutine holding it, or None
    pc,          \* per request goroutine: its position in allow()
    lkey,        \* allow's parameter key
    lnow,        \* allow's local now
    lastTime,    \* allow's local lastTime
    lret,        \* the value allow() returned
    spc,         \* the cleanup goroutine's position
    serLA,       \* lastAccess of the serial execution (calls in lock order)
    serTok,      \* tokens of the serial execution
    serRet,      \* per goroutine: what its call returns in the serial execution
    admitted,    \* per key: calls with the current value of now that returned true
    ncalls       \* number of allow() calls started

concVars == <<mu, pc, lkey, lnow, lastTime, lret, spc, serLA, serTok, serRet,
              admitted, ncalls>>

\* orderService over its two collaborators
VARIABLES
    db,          \* app_schema.orders: order number -> <<row>>, or <<>> for no row
    nextId,      \* the next primary key the table assigns
    orderCache,  \* the Redis keys order:{orderNumber} (partial map)
    listCache,   \* the Redis keys order_list:{username}:{page}:{pageSize}
    lastOp,      \* the last service call (or key expiry) and what it did
    prevOp       \* the one before it

ordVars == <<db, nextId, orderCache, listCache, lastOp, prevOp>>

\* requests on their way through the engine's handler chain
VARIABLES
    rq,          \* per request: its route, client IP, gin.Context index and marks
    nreq         \* number of requests received

gateVars == <<rq, nreq>>

\* one ListOrders call that missed the list cache
VARIABLES
    pgArgs,      \* the page and pageSize ListOrders was called with
    pgCall       \* the orderRepo.List call it made, Nil before the call

pgVars == <<pgArgs, pgCall>>

\* a ListOrders request running Redis command by Redis command, next to other
\* requests
VARIABLES
    rd           \* its position, arguments, the fields it has read, its result

rdVars == <<rd>>

\* a GetOrderByOrderNumber request running call by call, next to other requests
VARIABLES
    cg           \* its position, its order number, what the repository returned

cgVars == <<cg>>

\* the limiter's admissions, kept to count them over intervals, and the
\* limiter as it would be had cleanup never run
VARIABLES
    admits,      \* per key: the times of the allow() calls that returned true
    noSweep      \* the maps of the limiter without cleanup, and the last call

\* the order routes' handlers, one HTTP request a step
VARIABLES
    hx           \* the last request: its session user, its parameters, its answer

extVars == <<gateVars, pgVars, rdVars, cgVars, admits, noSweep, hx>>

Min(a, b) == IF a <= b THEN a ELSE b

\* a Go map read: the zero value when the key is absent
MapGet(m, k, zero) == IF k \in DOMAIN m THEN m[k] ELSE zero
MapSet(m, k, v) == [x \in DOMAIN m \cup {k} |-> IF x = k THEN v ELSE m[x]]
MapDelete(m, ks) == [x \in DOMAIN m \ ks |-> m[x]]

\* ---------------------------------------------------------- rateLimiter.allow
\* int(elapsed * float64(rl.rate)) with elapsed = dt ticks = dt/TicksPerSec s
TokensToAddNoRate(dt, r) == dt \div TicksPerSec
TokensToAdd(dt, r) == (dt * r) \div TicksPerSec

\* lines 55-58: add, then cap at rate
RefillNoCap(tok, add, r) == tok + add
Refill(tok, add, r) == IF tok + add > r THEN r ELSE tok + add

\* line 43: the first call leaves rate - 1 tokens
FirstTokensFull(r) == r
FirstTokens(r) == r - 1

\* lines 41-45: first observation of the key
AllowFirstNoStamp(la, tk, r, key, t) ==
    [lastAccess |-> la,
     tokens     |-> MapSet(tk, key, FirstTokens(r)),
     ret        |-> TRUE,
     existed    |-> FALSE,
     elapsed    |-> 0,
     before     |-> 0,
     refilled   |-> FirstTokens(r)]
AllowFirst(la, tk, r, key, t) ==
    [lastAccess |-> MapSet(la, key, t),
     tokens     |-> MapSet(tk, key, FirstTokens(r)),
     ret        |-> TRUE,
     existed    |-> FALSE,
     elapsed    |-> 0,
     before     |-> 0,
     refilled   |-> FirstTokens(r)]

\* lines 47-67: lazy refill, then spend
AllowExistingRestamp(la, tk, r, key, t) ==
    LET dt   == t - la[key]
        add  == TokensToAdd(dt, r)
        old  == MapGet(tk, key, 0)
        tok1 == IF add > 0 THEN Refill(old, add, r) ELSE old
        la1  == MapSet(la, key, t)
        ok   == tok1 > 0
        tok2 == IF ok THEN tok1 - 1 ELSE tok1
    IN [lastAccess |-> la1,
        tokens     |-> IF add > 0 \/ ok THEN MapSet(tk, key, tok2) ELSE tk,
        ret        |-> ok,
        existed    |-> TRUE,
        elapsed    |-> dt,
        before     |-> old,
        refilled   |-> tok1]
AllowExisting(la, tk, r, key, t) ==
    LET dt   == t - la[key]
        add  == TokensToAdd(dt, r)
        old  == MapGet(tk, key, 0)
        tok1 == IF add > 0 THEN Refill(old, add, r) ELSE old
        la1  == IF add > 0 THEN MapSet(la, key, t) ELSE la
        ok   == tok1 > 0
        tok2 == IF ok THEN tok1 - 1 ELSE tok1
    IN [lastAccess |-> la1,
        tokens     |-> IF add > 0 \/ ok THEN MapSet(tk, key, tok2) ELSE tk,
        ret        |-> ok,
        existed    |-> TRUE,
        elapsed    |-> dt,
        before     |-> old,
        refilled   |-> tok1]

\* the whole of allow(key) executed at time t on maps la, tk
Allow(la, tk, r, key, t) ==
    IF key \notin DOMAIN la
    THEN AllowFirst(la, tk, r, key, t)
    ELSE AllowExisting(la, tk, r, key, t)

\* -------------------------------------------------------- rateLimiter.cleanup
\* line 80: now.Sub(lastTime) > 5*time.Minute
ExpiredAtRetention(la, t) == {k \in DOMAIN la : t - la[k] >= RetentionTicks}
Expired(la, t) == {k \in DOMAIN la : t - la[k] > RetentionTicks}

NoCall == [key |-> None, ret |-> FALSE, existed |-> FALSE, elapsed |-> 0,
           before |-> 0, refilled |-> 0, at |-> 0, purged |-> FALSE]
NoBurst == [valid |-> FALSE, calls |-> 0, admitted |-> 0]

RLInit ==
    /\ rate \in 1..MaxRate
    /\ now = 0
    /\ lastAccess = <<>>
    /\ tokens = <<>>
    /\ rlLast = NoCall
    /\ burst = [k \in Keys |-> NoBurst]
    /\ ticks = 0
    /\ purged = {}

\* one request passing through RateLimit's handler: allow(key) under the lock
AllowCall(key) ==
    LET res == Allow(lastAccess, tokens, rate, key, now)
        b   == burst[key]
    IN /\ b.valid => b.calls < MaxCalls
       /\ lastAccess' = res.lastAccess
       /\ tokens' = res.tokens
       /\ rlLast' = [key |-> key, ret |-> res.ret, existed |-> res.existed,
                     elapsed |-> res.elapsed, before |-> res.before,
                     refilled |-> res.refilled, at |-> now,
                     purged |-> key \in purged]
       /\ purged' = purged \ {key}
       /\ burst' = [burst EXCEPT ![key] =
                      IF ~res.existed
                      THEN [valid |-> TRUE, calls |-> 1, admitted |-> 1]
                      ELSE IF b.valid
                      THEN [valid |-> TRUE, calls |-> b.calls + 1,
                            admitted |-> b.admitted + (IF res.ret THEN 1 ELSE 0)]
                      ELSE b]
       /\ UNCHANGED <<rate, now, ticks>>

\* one pass of cleanup's loop body, under the lock
SweepEverything ==
    /\ DOMAIN lastAccess # {}
    /\ lastAccess' = <<>>
    /\ tokens' = <<>>
    /\ purged' = purged \cup DOMAIN lastAccess
    /\ UNCHANGED <<rate, now, rlLast, burst, ticks>>
Sweep ==
    /\ Expired(lastAccess, now) # {}
    /\ lastAccess' = MapDelete(lastAccess, Expired(lastAccess, now))
    /\ tokens' = MapDelete(tokens, Expired(lastAccess, now))
    /\ purged' = purged \cup Expired(lastAccess, now)
    /\ UNCHANGED <<rate, now, rlLast, burst, ticks>>

\* the clock advances
Tick ==
    /\ ticks < MaxTicks
    /\ \E d \in TickSteps : now' = now + d
    /\ ticks' = ticks + 1
    /\ burst' = [k \in Keys |-> NoBurst]
    /\ UNCHANGED <<rate, lastAccess, tokens, rlLast, purged>>

\* ------------------------------------- allow() and cleanup(), step by step
\* sync.Mutex: Lock() returns only when no goroutine holds the mutex
LockAlways(m) == TRUE
LockFree(m) == m = None

ConcInit ==
    /\ mu = None
    /\ pc = [p \in Procs |-> "idle"]
    /\ lkey = [p \in Procs |-> None]
    /\ lnow = [p \in Procs |-> 0]
    /\ lastTime = [p \in Procs |-> 0]
    /\ lret = [p \in Procs |-> FALSE]
    /\ spc = "wait"
    /\ serLA = <<>>
    /\ serTok = <<>>
    /\ serRet = [p \in Procs |-> FALSE]
    /\ admitted = [k \in Keys |-> 0]
    /\ ncalls = 0

\* RateLimit's handler calls allow(c.ClientIP())
CallAllow(p, key) ==
    /\ pc[p] \in {"idle", "done"}
    /\ ncalls < MaxConcCalls
    /\ ncalls' = ncalls + 1
    /\ pc' = [pc EXCEPT ![p] = "lock"]
    /\ lkey' = [lkey EXCEPT ![p] = key]
    /\ UNCHANGED <<mu, lnow, lastTime, lret, spc, serLA, serTok, serRet, admitted>>
    /\ UNCHANGED rlVars

\* line 34: rl.mu.Lock()
AcquireLock(p) ==
    /\ pc[p] = "lock"
    /\ LockFree(mu)
    /\ mu' = p
    /\ pc' = [pc EXCEPT ![p] = "read"]
    /\ UNCHANGED <<lkey, lnow, lastTime, lret, spc, serLA, serTok, serRet,
                   admitted, ncalls>>
    /\ UNCHANGED rlVars

\* lines 37-38: now := time.Now(); lastTime, exists := rl.lastAccess[key]
\* The serial execution runs the whole call at this point.
ReadBucket(p) ==
    /\ pc[p] = "read"
    /\ lnow' = [lnow EXCEPT ![p] = now]
    /\ lastTime' = [lastTime EXCEPT ![p] = MapGet(lastAccess, lkey[p], 0)]
    /\ pc' = [pc EXCEPT ![p] = IF lkey[p] \in DOMAIN lastAccess
                                THEN "refill" ELSE "first"]
    /\ LET ser == Allow(serLA, serTok, rate, lkey[p], now)
       IN /\ serLA' = ser.lastAccess
          /\ serTok' = ser.tokens
          /\ serRet' = [serRet EXCEPT ![p] = ser.ret]
    /\ UNCHANGED <<mu, lkey, lret, spc, admitted, ncalls>>
    /\ UNCHANGED rlVars

\* lines 41-45: first observation; the deferred Unlock runs on return
FirstVisit(p) ==
    /\ pc[p] = "first"
    /\ lastAccess' = MapSet(lastAccess, lkey[p], lnow[p])
    /\ tokens' = MapSet(tokens, lkey[p], FirstTokens(rate))
    /\ lret' = [lret EXCEPT ![p] = TRUE]
    /\ pc' = [pc EXCEPT ![p] = "unlock"]
    /\ UNCHANGED <<mu, lkey, lnow, lastTime, spc, serLA, serTok, serRet,
                   admitted, ncalls>>
    /\ UNCHANGED <<rate, now, rlLast, burst, ticks, purged>>

\* lines 48-60: the lazy refill
RefillStep(p) ==
    /\ pc[p] = "refill"
    /\ LET add == TokensToAdd(lnow[p] - lastTime[p], rate)
       IN IF add > 0
          THEN /\ tokens' = MapSet(tokens, lkey[p],
                                   Refill(MapGet(tokens, lkey[p], 0), add, rate))
               /\ lastAccess' = MapSet(lastAccess, lkey[p], lnow[p])
          ELSE UNCHANGED <<tokens, lastAccess>>
    /\ pc' = [pc EXCEPT ![p] = "spend"]
    /\ UNCHANGED <<mu, lkey, lnow, lastTime, lret, spc, serLA, serTok, serRet,
                   admitted, ncalls>>
    /\ UNCHANGED <<rate, now, rlLast, burst, ticks, purged>>

\* lines 62-67: spend one token if there is one
SpendStep(p) ==
    /\ pc[p] = "spend"
    /\ IF MapGet(tokens, lkey[p], 0) > 0
       THEN /\ tokens' = MapSet(tokens, lkey[p], MapGet(tokens, lkey[p], 0) - 1)
            /\ lret' = [lret EXCEPT ![p] = TRUE]
       ELSE /\ lret' = [lret EXCEPT ![p] = FALSE]
            /\ UNCHANGED tokens
    /\ pc' = [pc EXCEPT ![p] = "unlock"]
    /\ UNCHANGED <<mu, lkey, lnow, lastTime, spc, serLA, serTok, serRet,
                   admitted, ncalls>>
    /\ UNCHANGED <<rate, now, lastAccess, rlLast, burst, ticks, purged>>

\* line 35: defer rl.mu.Unlock(), and allow() returns
ReleaseLockKept(p) ==
    /\ pc[p] = "unlock"
    /\ mu' = mu
    /\ pc' = [pc EXCEPT ![p] = "done"]
    /\ admitted' = IF lret[p] /\ lnow[p] = now
                   THEN [admitted EXCEPT ![lkey[p]] = @ + 1]
                   ELSE admitted
    /\ UNCHANGED <<lkey, lnow, lastTime, lret, spc, serLA, serTok, serRet, ncalls>>
    /\ UNCHANGED rlVars
ReleaseLock(p) ==
    /\ pc[p] = "unlock"
    /\ mu' = IF mu = p THEN None ELSE mu
    /\ pc' = [pc EXCEPT ![p] = "done"]
    /\ admitted' = IF lret[p] /\ lnow[p] = now
                   THEN [admitted EXCEPT ![lkey[p]] = @ + 1]
                   ELSE admitted
    /\ UNCHANGED <<lkey, lnow, lastTime, lret, spc, serLA, serTok, serRet, ncalls>>
    /\ UNCHANGED rlVars

\* lines 76-77: a tick of the ticker arrives, rl.mu.Lock()
SweepLock ==
    /\ spc = "wait"
    /\ LockFree(mu)
    /\ mu' = Sweeper
    /\ spc' = "scan"
    /\ UNCHANGED <<pc, lkey, lnow, lastTime, lret, serLA, serTok, serRet,
                   admitted, ncalls>>
    /\ UNCHANGED rlVars

\* lines 78-84: delete every key older than the retention window
SweepScan ==
    /\ spc = "scan"
    /\ lastAccess' = MapDelete(lastAccess, Expired(lastAccess, now))
    /\ tokens' = MapDelete(tokens, Expired(lastAccess, now))
    /\ serLA' = MapDelete(serLA, Expired(serLA, now))
    /\ serTok' = MapDelete(serTok, Expired(serLA, now))
    /\ spc' = "unlock"
    /\ UNCHANGED <<mu, pc, lkey, lnow, lastTime, lret, serRet, admitted, ncalls>>
    /\ UNCHANGED <<rate, now, rlLast, burst, ticks, purged>>

\* line 85: rl.mu.Unlock()
SweepUnlock ==
    /\ spc = "unlock"
    /\ mu' = IF mu = Sweeper THEN None ELSE mu
    /\ spc' = "wait"
    /\ UNCHANGED <<pc, lkey, lnow, lastTime, lret, serLA, serTok, serRet,
                   admitted, ncalls>>
    /\ UNCHANGED rlVars

\* the clock advances, whoever holds the lock
ConcTick ==
    /\ ticks < MaxConcTicks
    /\ \E d \in {1, RetentionTicks + 1} : now' = now + d
    /\ ticks' = ticks + 1
    /\ admitted' = [k \in Keys |-> 0]
    /\ UNCHANGED <<mu, pc, lkey, lnow, lastTime, lret, spc, serLA, serTok,
                   serRet, ncalls>>
    /\ UNCHANGED <<rate, lastAccess, tokens, rlLast, burst, purged>>

\* ------------------------------------------------------------ orderService
\* a nil pointer, a missing row, the empty string: the empty sequence
Nil == <<>>
Some(x) == <<x>>
NoErr == "nil"

\* model.Order as a table row; deleted is DeletedAt being set (soft delete)
NewOrder(n, u, price) ==
    [id |-> 0, orderNumber |-> n, username |-> u, totalPrice |-> price,
     status |-> 1, deleted |-> FALSE]

\* json.MarshalIndent(order): DeletedAt is tagged json:"-" and is left out
Marshal(o) ==
    Some([id |-> o.id, order_number |-> o.orderNumber, username |-> o.username,
          total_price |-> o.totalPrice, status |-> o.status])
\* json.Unmarshal into a zero Order: DeletedAt keeps its zero value
Unmarshal(str) ==
    [id |-> str[1].id, orderNumber |-> str[1].order_number,
     username |-> str[1].username, totalPrice |-> str[1].total_price,
     status |-> str[1].status, deleted |-> FALSE]
Tombstone == Nil

\* redisRepository.Get: ("", error) when the key is missing or Redis fails
RedisGetAlwaysMiss(oc, n, ok) == [val |-> Nil, err |-> TRUE]
RedisGet(oc, n, ok) ==
    IF ok /\ n \in DOMAIN oc THEN [val |-> oc[n], err |-> FALSE]
                             ELSE [val |-> Nil, err |-> TRUE]

\* orderRepository.GetOrderByOrderNumber: First() skips soft-deleted rows
RepoFind(d, n) == IF d[n] # Nil /\ ~d[n][1].deleted THEN d[n] ELSE Nil

\* lines 183-185: SetWithExpire(order:{n}, "", 30 min), a failure is only logged
CacheEmptySkipped(oc, n, ok) == oc
CacheEmpty(oc, n, ok) == IF ok THEN MapSet(oc, n, Tombstone) ELSE oc

\* saveOrderInCache: SetWithExpire(order:{n}, json, 30 min)
SaveOrderInCacheNoop(oc, o, ok) == oc
SaveOrderInCache(oc, o, ok) == IF ok THEN MapSet(oc, o.orderNumber, Marshal(o)) ELSE oc

\* what the lookup met when it did not return a value (the code sees an error
\* from Get in both cases)
Missed(f) == IF f.getOk THEN "absent" ELSE "error"

\* lines 188-189: the repository failed with an error other than not-found
OnRepoErrorCached(oc, n, f) ==
    [oc |-> CacheEmpty(oc, n, TRUE), order |-> Nil, err |-> "ErrOrderFailed",
     repoGets |-> 1, lookup |-> Missed(f), cacheErr |-> ~f.getOk]
OnRepoError(oc, n, f) ==
    [oc |-> oc, order |-> Nil, err |-> "ErrOrderFailed",
     repoGets |-> 1, lookup |-> Missed(f), cacheErr |-> ~f.getOk]

\* GetOrderByOrderNumber; f holds which collaborator calls succeed
GetOrderByOrderNumber(oc, d, n, f) ==
    LET got   == RedisGet(oc, n, f.getOk)
        found == RepoFind(d, n)
    IN IF ~got.err /\ got.val # Nil
       THEN [oc |-> oc, order |-> Some(Unmarshal(got.val)), err |-> NoErr,
             repoGets |-> 0, lookup |-> "hit", cacheErr |-> FALSE]
       ELSE IF ~got.err /\ got.val = Nil
       THEN [oc |-> oc, order |-> Nil, err |-> NoErr,
             repoGets |-> 0, lookup |-> "tombstone", cacheErr |-> FALSE]
       ELSE IF ~f.repoOk
       THEN OnRepoError(oc, n, f)
       ELSE IF found = Nil
       THEN [oc |-> CacheEmpty(oc, n, f.setOk),
             order |-> Nil, err |-> "ErrEmptyCache",
             repoGets |-> 1, lookup |-> Missed(f),
             cacheErr |-> ~f.getOk \/ ~f.setOk]
       ELSE [oc |-> SaveOrderInCache(oc, found[1], f.setOk),
             order |-> IF f.setOk THEN found ELSE Nil,
             err |-> IF f.setOk THEN NoErr ELSE "ErrOrderCacheFailed",
             repoGets |-> 1, lookup |-> Missed(f),
             cacheErr |-> ~f.getOk \/ ~f.setOk]

\* deleteOrderListCache: Keys("order_list:*"), then Delete key by key; dk is
\* the set of keys deleted before the Delete that fails
DeleteOrderListCache(lc, f, dk) ==
    IF ~f.scanOk THEN [lc |-> lc, err |-> "ErrRedisScanKeysFailed"]
    ELSE IF f.delOk \/ DOMAIN lc = {} THEN [lc |-> MapDelete(lc, DOMAIN lc), err |-> NoErr]
    ELSE [lc |-> MapDelete(lc, dk), err |-> "ErrOrderListCacheDeleteFailed"]

\* the result of a mutation: the new state and what is returned; wrote tells
\* whether the relational write was applied
Outcome(oc, lc, d, nid, order, err, g, wrote) ==
    [oc |-> oc, lc |-> lc, db |-> d, nextId |-> nid, order |-> order, err |-> err,
     repoGets |-> g.repoGets, lookup |-> g.lookup, cacheErr |-> g.cacheErr,
     wrote |-> wrote]

\* BaseRepository.Create: INSERT; order_number is unique over all rows,
\* soft-deleted ones included
CreateOrder(oc, lc, d, nid, n, req, f, dk) ==
    LET g     == GetOrderByOrderNumber(oc, d, n, f)
        order == [NewOrder(n, req.username, req.totalPrice) EXCEPT !.id = nid]
        d1    == [d EXCEPT ![n] = Some(order)]
        oc1   == SaveOrderInCache(g.oc, order, f.saveOk)
        inval == DeleteOrderListCache(lc, f, dk)
    IN IF g.err = NoErr /\ g.order # Nil
       THEN Outcome(g.oc, lc, d, nid, Nil, "ErrOrderExists", g, FALSE)
       ELSE IF ~f.writeOk \/ d[n] # Nil
       THEN Outcome(g.oc, lc, d, nid, Nil, "ErrOrderCreateFailed", g, FALSE)
       ELSE IF ~f.saveOk
       THEN Outcome(g.oc, lc, d1, nid + 1, Nil, "ErrOrderCacheFailed", g, TRUE)
       ELSE IF inval.err # NoErr
       THEN Outcome(oc1, inval.lc, d1, nid + 1, Nil, "ErrOrderListCacheDeleteFailed", g, TRUE)
       ELSE Outcome(oc1, inval.lc, d1, nid + 1, Some(order), NoErr, g, TRUE)

\* lines 208-217: zero-valued request fields leave the order's field alone
ApplyUpdate(o, req) ==
    [o EXCEPT !.totalPrice = IF req.totalPrice # 0 THEN req.totalPrice ELSE @,
              !.status = IF req.status # 0 THEN req.status ELSE @]

\* BaseRepository.Update: gorm Save writes every field of the row with the
\* order's primary key (inserting it when no live row was updated)
SaveRow(d, o) == [d EXCEPT ![o.orderNumber] = Some(o)]

UpdateOrderByOrderNumber(oc, lc, d, nid, req, f, dk) ==
    LET n     == req.orderNumber
        g     == GetOrderByOrderNumber(oc, d, n, f)
        order == ApplyUpdate(g.order[1], req)
        d1    == SaveRow(d, order)
        oc1   == SaveOrderInCache(g.oc, order, f.saveOk)
        inval == DeleteOrderListCache(lc, f, dk)
    IN IF g.err # NoErr \/ g.order = Nil
       THEN Outcome(g.oc, lc, d, nid, Nil, "ErrOrderNotFound", g, FALSE)
       ELSE IF ~f.writeOk
       THEN Outcome(g.oc, lc, d, nid, Nil, "ErrOrderUpdateFailed", g, FALSE)
       ELSE IF ~f.saveOk
       THEN Outcome(g.oc, lc, d1, nid, Nil, "ErrOrderCacheFailed", g, TRUE)
       ELSE IF inval.err # NoErr
       THEN Outcome(oc1, inval.lc, d1, nid, Nil, "ErrOrderListCacheDeleteFailed", g, TRUE)
       ELSE Outcome(oc1, inval.lc, d1, nid, Some(order), NoErr, g, TRUE)

\* BaseRepository.Delete(id): soft delete of the live row with that key
SoftDelete(d, id) ==
    [m \in DOMAIN d |->
        IF d[m] # Nil /\ d[m][1].id = id /\ ~d[m][1].deleted
        THEN Some([d[m][1] EXCEPT !.deleted = TRUE])
        ELSE d[m]]

\* redisRepository.Delete(order:{n})
RedisDeleteKept(oc, n) == oc
RedisDelete(oc, n) == MapDelete(oc, {n})

DeleteOrderByOrderNumber(oc, lc, d, nid, n, f, dk) ==
    LET g     == GetOrderByOrderNumber(oc, d, n, f)
        oc1   == RedisDelete(g.oc, n)
        inval == DeleteOrderListCache(lc, f, dk)
        d1    == SoftDelete(d, g.order[1].id)
    IN IF g.err # NoErr \/ g.order = Nil
       THEN Outcome(g.oc, lc, d, nid, Nil, "ErrOrderNotFound", g, FALSE)
       ELSE IF ~f.cacheDelOk
       THEN Outcome(g.oc, lc, d, nid, Nil, "ErrOrderCacheDeleteFailed", g, FALSE)
       ELSE IF inval.err # NoErr
       THEN Outcome(oc1, inval.lc, d, nid, Nil, "ErrOrderListCacheDeleteFailed", g, FALSE)
       ELSE IF ~f.writeOk
       THEN Outcome(oc1, inval.lc, d, nid, Nil, "ErrOrderDeleteFailed", g, FALSE)
       ELSE Outcome(oc1, inval.lc, d1, nid, Nil, NoErr, g, TRUE)

\* orderRepository.List: the live rows in primary-key order, all of them
\* for admin and the user's own otherwise, OFFSET offset LIMIT limit;
\* total is the length of the page
RowById(d, i) == (CHOOSE m \in DOMAIN d : d[m] # Nil /\ d[m][1].id = i)
LiveRows(d, nid, u) ==
    SelectSeq([i \in 1..(nid - 1) |-> d[RowById(d, i)][1]],
              LAMBDA r : ~r.deleted /\ (u = AdminName \/ r.username = u))
RepoList(d, nid, u, offset, limit) ==
    LET rows  == LiveRows(d, nid, u)
        \* gorm writes an OFFSET clause only for a positive offset
        start == IF offset > 0 THEN offset ELSE 0
        page  == SubSeq(rows, start + 1, Min(start + limit, Len(rows)))
    IN [orders |-> page, total |-> Len(page)]

\* Go's int, at IntBits bits: arithmetic wraps around in two's complement
IntMax == 2 ^ (IntBits - 1) - 1
IntMin == - (2 ^ (IntBits - 1))
Wrap(x) == ((x - IntMin) % (2 ^ IntBits)) + IntMin

\* lines 344-352
NormPage(page) == IF page <= 0 THEN DefaultPage ELSE page
NormPageSize(size) ==
    IF size <= 0 THEN DefaultPageSize
    ELSE IF size > MaxPageSize THEN MaxPageSize ELSE size

\* line 354: offset := (page - 1) * pageSize
Offset(page, size) == Wrap((page - 1) * size)

\* lines 344-355: the arguments of orderRepo.List on a list-cache miss
RepoListArgs(page, size) ==
    [page   |-> NormPage(page),
     size   |-> NormPageSize(size),
     offset |-> Offset(NormPage(page), NormPageSize(size)),
     limit  |-> NormPageSize(size)]

\* getOrderListCacheKey
ListKey(u, page, size) == <<u, page, size>>

\* json.MarshalIndent / json.Unmarshal of []*model.Order
MarshalList(orders) == [i \in 1..Len(orders) |-> Marshal(orders[i])[1]]
UnmarshalList(str) == [i \in 1..Len(str) |-> Unmarshal(Some(str[i]))]

\* a Redis hash with an expiry is its fields, and ttl for the seconds it has
\* to live
\* redisRepository.HashGet: ("", error) when the key or the field is missing
HashGet(lc, key, field) ==
    IF key \in DOMAIN lc /\ field \in DOMAIN lc[key] THEN Some(lc[key][field])
    ELSE Nil

\* redisRepository.HashSet: MULTI, HSET key values, EXPIRE key expireTime,
\* EXEC; Redis runs the queued commands as one step or, the EXEC not reaching
\* it, not at all
HashSetPipelined(lc, key, expireTime, values, ok) ==
    IF ok THEN MapSet(lc, key, [x \in DOMAIN values \cup {"ttl"} |->
                                  IF x = "ttl" THEN expireTime ELSE values[x]])
    ELSE MapSet(lc, key, [x \in {"orders"} |-> values[x]])
HashSet(lc, key, expireTime, values, ok) ==
    LET old == IF key \in DOMAIN lc THEN lc[key] ELSE <<>>
    IN IF ok
       THEN MapSet(lc, key,
                   [x \in DOMAIN old \cup DOMAIN values \cup {"ttl"} |->
                       IF x = "ttl" THEN expireTime
                       ELSE IF x \in DOMAIN values THEN values[x] ELSE old[x]])
       ELSE lc

\* saveOrderListInCache: the error tested at line 85 is the one MarshalIndent
\* returned; what HashSet returns is dropped
SaveOrderListInCacheChecked(lc, key, orders, total, ok) ==
    [lc  |-> HashSet(lc, key, ListCacheSeconds,
                     [orders |-> MarshalList(orders), total |-> total], ok),
     err |-> IF ok THEN NoErr ELSE "ErrOrderCacheFailed"]
SaveOrderListInCache(lc, key, orders, total, ok) ==
    [lc  |-> HashSet(lc, key, ListCacheSeconds,
                     [orders |-> MarshalList(orders), total |-> total], ok),
     err |-> NoErr]

\* ListOrders
ListOrders(lc, d, nid, u, page, size, f) ==
    LET key  == ListKey(u, page, size)
        hit  == /\ f.getOk
                /\ HashGet(lc, key, "orders") # Nil
                /\ HashGet(lc, key, "total") # Nil
        p1   == NormPage(page)
        s1   == NormPageSize(size)
        res  == RepoList(d, nid, u, Offset(p1, s1), s1)
        save == SaveOrderListInCache(lc, ListKey(u, p1, s1), res.orders,
                                     res.total, f.setOk)
    IN IF hit
       THEN [lc |-> lc, list |-> Some([orders |-> UnmarshalList(lc[key].orders),
                                       total |-> lc[key].total]),
             err |-> NoErr, lookup |-> "hit", repoLists |-> 0]
       ELSE IF ~f.repoOk
       THEN [lc |-> lc, list |-> Nil, err |-> "ErrOrderListFailed",
             lookup |-> "miss", repoLists |-> 1]
       ELSE IF save.err # NoErr
       THEN [lc |-> save.lc, list |-> Nil, err |-> "ErrOrderCacheFailed",
             lookup |-> "miss", repoLists |-> 1]
       ELSE [lc |-> save.lc, list |-> Some(res), err |-> NoErr,
             lookup |-> "miss", repoLists |-> 1]

\* which collaborator calls succeed during one service call: at most MaxFaults
\* of them fail
FlagNames == {"getOk", "repoOk", "setOk", "writeOk", "saveOk", "cacheDelOk",
              "scanOk", "delOk"}
Failures ==
    {f \in [FlagNames -> BOOLEAN] : Cardinality({x \in FlagNames : ~f[x]}) <= MaxFaults}
CreateRequests == [username : Users \ {AdminName}, totalPrice : Prices \ {0}]
UpdateRequests == [orderNumber : OrderNumbers, totalPrice : Prices, status : {0}]

NoOp == [op |-> None, n |-> None, order |-> Nil, err |-> NoErr, repoGets |-> 0,
         lookup |-> None, cacheErr |-> FALSE, wrote |-> FALSE, list |-> Nil]

\* what the next call's claims need of a call: a read that found nothing and
\* cached that, or a successful create or update and the order it returned
Kind(o) ==
    IF o.op = "Get" /\ o.err = "ErrEmptyCache" /\ ~o.cacheErr THEN "notfound"
    ELSE IF o.op = "Get" /\ o.err = "ErrOrderFailed" /\ o.lookup = "absent"
    THEN "failed"
    ELSE IF o.op = "Create" /\ o.err = NoErr THEN "created"
    ELSE IF o.op = "Update" /\ o.err = NoErr THEN "updated"
    ELSE IF o.op = "Delete" /\ o.err = NoErr THEN "deleted"
    ELSE "other"
Brief(o) == [n |-> IF Kind(o) = "other" THEN None ELSE o.n, kind |-> Kind(o),
             order |-> IF Kind(o) \in {"created", "updated"} THEN o.order ELSE Nil]

OrdInit ==
    /\ db = [n \in OrderNumbers |-> Nil]
    /\ nextId = 1
    /\ orderCache = <<>>
    /\ listCache = <<>>
    /\ lastOp = NoOp
    /\ prevOp = Brief(NoOp)

\* a mutation's outcome becomes the next state
Apply(name, n, r) ==
    /\ db' = r.db
    /\ nextId' = r.nextId
    /\ orderCache' = r.oc
    /\ listCache' = r.lc
    /\ lastOp' = [op |-> name, n |-> n, order |-> r.order, err |-> r.err,
                  repoGets |-> r.repoGets, lookup |-> r.lookup,
                  cacheErr |-> r.cacheErr, wrote |-> r.wrote, list |-> Nil]
    /\ prevOp' = Brief(lastOp)

DoGet(n) ==
    \E f \in Failures :
        LET r == GetOrderByOrderNumber(orderCache, db, n, f)
        IN /\ orderCache' = r.oc
           /\ lastOp' = [NoOp EXCEPT !.op = "Get", !.n = n, !.order = r.order,
                                     !.err = r.err, !.repoGets = r.repoGets,
                                     !.lookup = r.lookup, !.cacheErr = r.cacheErr]
           /\ prevOp' = Brief(lastOp)
           /\ UNCHANGED <<db, nextId, listCache>>

DoCreate(n) ==
    \E f \in Failures, req \in CreateRequests, dk \in SUBSET DOMAIN listCache :
         /\ IF f.scanOk /\ ~f.delOk THEN dk # DOMAIN listCache ELSE dk = {}
        /\ Apply("Create", n,
                 CreateOrder(orderCache, listCache, db, nextId, n, req, f, dk))

DoUpdate ==
    \E f \in Failures, req \in UpdateRequests, dk \in SUBSET DOMAIN listCache :
         /\ IF f.scanOk /\ ~f.delOk THEN dk # DOMAIN listCache ELSE dk = {}
        /\ Apply("Update", req.orderNumber,
                 UpdateOrderByOrderNumber(orderCache, listCache, db, nextId, req, f, dk))

DoDelete(n) ==
    \E f \in Failures, dk \in SUBSET DOMAIN listCache :
         /\ IF f.scanOk /\ ~f.delOk THEN dk # DOMAIN listCache ELSE dk = {}
        /\ Apply("Delete", n,
                 DeleteOrderByOrderNumber(orderCache, listCache, db, nextId, n, f, dk))

DoList ==
    \E f \in Failures, a \in ListArgs :
        LET u == a[1]
            r == ListOrders(listCache, db, nextId, u, a[2], a[3], f)
        IN /\ listCache' = r.lc
           /\ lastOp' = [NoOp EXCEPT !.op = "List", !.n = u, !.err = r.err,
                                     !.lookup = r.lookup, !.list = r.list]
           /\ prevOp' = Brief(lastOp)
           /\ UNCHANGED <<db, nextId, orderCache>>

\* ------------------------------------------------- the operations by id
\* BaseRepository.GetByID: First(&entity, id) skips soft-deleted rows
GetByID(d, id) ==
    LET ns == {m \in DOMAIN d : d[m] # Nil /\ d[m][1].id = id /\ ~d[m][1].deleted}
    IN IF ns = {} THEN Nil ELSE d[CHOOSE m \in ns : TRUE]

\* UpdateOrder(id, req), lines 281-310: the repository only
UpdateOrder(d, id, req, f) ==
    LET row == GetByID(d, id)
    IN IF ~f.repoOk THEN [db |-> d, order |-> Nil, err |-> "ErrOrderFailed"]
       ELSE IF row = Nil THEN [db |-> d, order |-> Nil, err |-> "ErrOrderNotFound"]
       ELSE IF ~f.writeOk
       THEN [db |-> d, order |-> Nil, err |-> "ErrOrderUpdateFailed"]
       ELSE [db |-> SaveRow(d, ApplyUpdate(row[1], req)),
             order |-> Some(ApplyUpdate(row[1], req)), err |-> NoErr]

\* DeleteOrder(id), lines 312-319: the repository only
DeleteOrder(d, id, f) ==
    IF ~f.writeOk THEN [db |-> d, order |-> GetByID(d, id), err |-> "ErrOrderDeleteFailed"]
    ELSE [db |-> SoftDelete(d, id), order |-> GetByID(d, id), err |-> NoErr]

\* the result of an operation by id becomes the next state; n is the order
\* number of the row it wrote
ApplyById(name, r) ==
    /\ db' = r.db
    /\ lastOp' = [NoOp EXCEPT !.op = name,
                              !.n = IF r.order = Nil THEN None
                                    ELSE r.order[1].orderNumber,
                              !.order = r.order, !.err = r.err,
                              !.wrote = (r.err = NoErr /\ r.order # Nil)]
    /\ prevOp' = Brief(lastOp)
    /\ UNCHANGED <<nextId, orderCache, listCache>>

DoUpdateById(id) ==
    \E f \in Failures, req \in UpdateRequests :
        ApplyById("UpdateById", UpdateOrder(db, id, req, f))

DoDeleteById(id) ==
    \E f \in Failures : ApplyById("DeleteById", DeleteOrder(db, id, f))

\* the calls by order number with every collaborator call succeeding
NoFailure == [x \in FlagNames |-> TRUE]

CreateOk(n) ==
    \E req \in CreateRequests :
        Apply("Create", n,
              CreateOrder(orderCache, listCache, db, nextId, n, req, NoFailure, {}))

GetOk(n) ==
    LET r == GetOrderByOrderNumber(orderCache, db, n, NoFailure)
    IN /\ orderCache' = r.oc
       /\ lastOp' = [NoOp EXCEPT !.op = "Get", !.n = n, !.order = r.order,
                                 !.err = r.err, !.repoGets = r.repoGets,
                                 !.lookup = r.lookup, !.cacheErr = r.cacheErr]
       /\ prevOp' = Brief(lastOp)
       /\ UNCHANGED <<db, nextId, listCache>>

UpdateOk ==
    \E req \in UpdateRequests :
        Apply("Update", req.orderNumber,
              UpdateOrderByOrderNumber(orderCache, listCache, db, nextId, req,
                                       NoFailure, {}))

DeleteOk(n) ==
    Apply("Delete", n,
          DeleteOrderByOrderNumber(orderCache, listCache, db, nextId, n,
                                   NoFailure, {}))

ListOk ==
    \E a \in ListArgs :
        LET r == ListOrders(listCache, db, nextId, a[1], a[2], a[3], NoFailure)
        IN /\ listCache' = r.lc
           /\ lastOp' = [NoOp EXCEPT !.op = "List", !.n = a[1], !.err = r.err,
                                     !.lookup = r.lookup, !.list = r.list]
           /\ prevOp' = Brief(lastOp)
           /\ UNCHANGED <<db, nextId, orderCache>>

\* Redis drops a key whose 30 minutes have passed
ExpireOrderKey(n) ==
    /\ n \in DOMAIN orderCache
    /\ orderCache' = MapDelete(orderCache, {n})
    /\ lastOp' = [NoOp EXCEPT !.op = "Expire", !.n = n]
    /\ prevOp' = Brief(lastOp)
    /\ UNCHANGED <<db, nextId, listCache>>

ExpireListKey ==
    \E key \in DOMAIN listCache :
        /\ listCache' = MapDelete(listCache, {key})
        /\ lastOp' = [NoOp EXCEPT !.op = "Expire"]
        /\ prevOp' = Brief(lastOp)
        /\ UNCHANGED <<db, nextId, orderCache>>

\* ------------------------------------------- SetupRouter and gin's chain
\* the handlers a request of a route runs through, in registration order:
\* engine.Use(...) before the routes, then the group's and the route's own
GlobalChain == <<"CORS", "Recovery", "Logger", "RateLimit", "Sessions">>
Chain(route) ==
    IF route = "orders"
    THEN GlobalChain \o <<"SessionAuth", "GetOrderByOrderNumber">>
    ELSE GlobalChain \o <<"HealthCheck">>

\* the handlers registered after RateLimit
AfterGate == {"Sessions", "SessionAuth", "GetOrderByOrderNumber",
              "HealthCheck"}

NoReq == [route |-> None, ip |-> None, idx |-> 0, aborted |-> FALSE,
          allowCalls |-> 0, admitted |-> None, resp |-> 0, ran |-> {}]

GateInit ==
    /\ rq = [r \in Reqs |-> NoReq]
    /\ nreq = 0

\* gin.Context.Next: the handler at idx runs next, unless Abort was called
Pending(q) == q.route # None /\ ~q.aborted /\ q.idx <= Len(Chain(q.route))
Handler(q) == Chain(q.route)[q.idx]

\* a handler that has run and called c.Next() (or returned without Abort)
Passed(q) == [q EXCEPT !.idx = @ + 1, !.ran = @ \cup {Handler(q)}]

\* a handler that answered with code and called c.Abort()
Aborted(q, code) ==
    [q EXCEPT !.idx = @ + 1, !.ran = @ \cup {Handler(q)}, !.aborted = TRUE,
              !.resp = code]

\* RateLimit, lines 97-105, after allow(key) has returned ok
RateLimitNoAbort(q, ok) ==
    [Passed(q) EXCEPT !.allowCalls = @ + 1,
                      !.admitted = IF ok THEN "yes" ELSE "no",
                      !.resp = IF ok THEN q.resp ELSE TooManyRequests]
RateLimit(q, ok) ==
    IF ok
    THEN [Passed(q) EXCEPT !.allowCalls = @ + 1, !.admitted = "yes"]
    ELSE [Aborted(q, TooManyRequests) EXCEPT !.allowCalls = @ + 1,
                                             !.admitted = "no"]

\* ServeHTTP: a request for a route arrives from a client address
Arrive(r, route, ip) ==
    /\ ~Pending(rq[r])
    /\ nreq < MaxReqs
    /\ nreq' = nreq + 1
    /\ rq' = [rq EXCEPT ![r] = [NoReq EXCEPT !.route = route, !.ip = ip,
                                             !.idx = 1]]
    /\ UNCHANGED <<rlVars, ordVars, pgVars, rdVars, cgVars, admits, noSweep, hx>>

\* middleware.CORS: answers a preflight itself, passes every other request on
CORSStep(r) ==
    /\ Pending(rq[r]) /\ Handler(rq[r]) = "CORS"
    /\ \E preflight \in BOOLEAN :
          rq' = [rq EXCEPT ![r] = IF preflight THEN Aborted(@, 204)
                                  ELSE Passed(@)]
    /\ UNCHANGED <<nreq, rlVars, ordVars, pgVars, rdVars, cgVars, admits, noSweep, hx>>

\* Recovery, Logger, sessions.Sessions: c.Next()
PassStep(r) ==
    /\ Pending(rq[r]) /\ Handler(rq[r]) \in {"Recovery", "Logger", "Sessions"}
    /\ rq' = [rq EXCEPT ![r] = Passed(@)]
    /\ UNCHANGED <<nreq, rlVars, ordVars, pgVars, rdVars, cgVars, admits, noSweep, hx>>

\* RateLimit's handler: key := c.ClientIP(); globalLimiter.allow(key)
RateLimitStep(r) ==
    /\ Pending(rq[r]) /\ Handler(rq[r]) = "RateLimit"
    /\ AllowCall(rq[r].ip)
    /\ rq' = [rq EXCEPT ![r] = RateLimit(@, rlLast'.ret)]
    /\ UNCHANGED <<nreq, ordVars, pgVars, rdVars, cgVars, admits, noSweep, hx>>

\* SessionAuth: aborts a request without a session
SessionAuthStep(r) ==
    /\ Pending(rq[r]) /\ Handler(rq[r]) = "SessionAuth"
    /\ \E session \in BOOLEAN :
          rq' = [rq EXCEPT ![r] = IF session THEN Passed(@)
                                  ELSE Aborted(@, 401)]
    /\ UNCHANGED <<nreq, rlVars, ordVars, pgVars, rdVars, cgVars, admits, noSweep, hx>>

\* OrderController.GetOrderByOrderNumber: calls the service
ControllerStep(r, n) ==
    /\ Pending(rq[r]) /\ Handler(rq[r]) = "GetOrderByOrderNumber"
    /\ DoGet(n)
    /\ rq' = [rq EXCEPT ![r] = [Passed(@) EXCEPT !.resp = 200]]
    /\ UNCHANGED <<nreq, rlVars, pgVars, rdVars, cgVars, admits, noSweep, hx>>

\* HealthCheck touches no service
PlainStep(r) ==
    /\ Pending(rq[r]) /\ Handler(rq[r]) = "HealthCheck"
    /\ rq' = [rq EXCEPT ![r] = [Passed(@) EXCEPT !.resp = 200]]
    /\ UNCHANGED <<nreq, rlVars, ordVars, pgVars, rdVars, cgVars, admits, noSweep, hx>>

\* ------------------------------------------ ListOrders on a list-cache miss
\* page and page_size as strconv.Atoi hands them over: any int
PageInputs == {IntMin, -1, 0, 1, 2, 3, DefaultPageSize, IntMax \div MaxPageSize,
               IntMax \div DefaultPageSize + 2, IntMax}
PageSizeInputs == {IntMin, -1, 0, 1, 2, DefaultPageSize, MaxPageSize - 1,
                   MaxPageSize, MaxPageSize + 1, IntMax}

PgIdle ==
    /\ pgArgs = <<DefaultPage, DefaultPageSize>>
    /\ pgCall = Nil

PgInit ==
    /\ pgArgs \in PageInputs \X PageSizeInputs
    /\ pgCall = Nil

\* ListOrders, lines 344-355, the cache having missed
ListMiss ==
    /\ pgCall = Nil
    /\ pgCall' = Some(RepoListArgs(pgArgs[1], pgArgs[2]))
    /\ UNCHANGED pgArgs
    /\ UNCHANGED <<rlVars, concVars, ordVars, gateVars, rdVars, cgVars, admits, noSweep, hx>>

\* ----------------------------------- ListOrders, one Redis command a step
NoRead == [pc |-> "idle", args |-> <<None, 0, 0>>, orders |-> Nil,
           total |-> Nil, lookup |-> None, list |-> Nil]

RdInit == rd = NoRead

\* ListOrders is called
ReaderStart(a) ==
    /\ rd.pc \in {"idle", "done"}
    /\ rd' = [NoRead EXCEPT !.pc = "orders", !.args = a]
    /\ UNCHANGED <<rlVars, concVars, ordVars, gateVars, pgVars, cgVars, admits, noSweep, hx>>

\* line 324: cachedOrders, _ := HashGet(cacheKey, "orders")
ReaderGetOrders ==
    /\ rd.pc = "orders"
    /\ rd' = [rd EXCEPT !.pc = "total",
                        !.orders = HashGet(listCache, ListKey(rd.args[1], rd.args[2], rd.args[3]), "orders")]
    /\ UNCHANGED <<rlVars, concVars, ordVars, gateVars, pgVars, cgVars, admits, noSweep, hx>>

\* lines 325-342: cachedTotal, _ := HashGet(cacheKey, "total"); both fields
\* non-empty is a hit
ReaderGetTotal ==
    /\ rd.pc = "total"
    /\ LET tot == HashGet(listCache, ListKey(rd.args[1], rd.args[2], rd.args[3]), "total")
       IN rd' = IF rd.orders # Nil /\ tot # Nil
                THEN [rd EXCEPT !.pc = "done", !.total = tot, !.lookup = "hit",
                                !.list = Some([orders |-> UnmarshalList(rd.orders[1]),
                                               total |-> tot[1]])]
                ELSE [rd EXCEPT !.pc = "miss", !.total = tot, !.lookup = "miss"]
    /\ UNCHANGED <<rlVars, concVars, ordVars, gateVars, pgVars, cgVars, admits, noSweep, hx>>

\* lines 344-367: the repository is queried and the page cached
ReaderMiss ==
    /\ rd.pc = "miss"
    /\ LET r == ListOrders(MapDelete(listCache, DOMAIN listCache), db, nextId,
                           rd.args[1], rd.args[2], rd.args[3], NoFailure)
           key == ListKey(rd.args[1], NormPage(rd.args[2]), NormPageSize(rd.args[3]))
       IN /\ listCache' = MapSet(listCache, key, r.lc[key])
          /\ rd' = [rd EXCEPT !.pc = "done", !.list = r.list]
    /\ UNCHANGED <<db, nextId, orderCache, lastOp, prevOp>>
    /\ UNCHANGED <<rlVars, concVars, gateVars, pgVars, cgVars, admits, noSweep, hx>>

\* --------------------- GetOrderByOrderNumber, one collaborator call a step
NoGet == [pc |-> "idle", n |-> None, found |-> Nil, order |-> Nil, err |-> NoErr]

CgInit == cg = NoGet

\* GetOrderByOrderNumber is called
GetStart(n) ==
    /\ cg.pc \in {"idle", "done"}
    /\ cg' = [NoGet EXCEPT !.pc = "cache", !.n = n]
    /\ UNCHANGED <<rlVars, concVars, ordVars, gateVars, pgVars, rdVars, admits, noSweep, hx>>

\* lines 165-177: redisCache.Get; a value or a tombstone ends the call
GetCache ==
    /\ cg.pc = "cache"
    /\ LET got == RedisGet(orderCache, cg.n, TRUE)
       IN cg' = IF ~got.err /\ got.val # Nil
                THEN [cg EXCEPT !.pc = "done", !.order = Some(Unmarshal(got.val))]
                ELSE IF ~got.err THEN [cg EXCEPT !.pc = "done"]
                ELSE [cg EXCEPT !.pc = "repo"]
    /\ UNCHANGED <<rlVars, concVars, ordVars, gateVars, pgVars, rdVars, admits, noSweep, hx>>

\* line 179: orderRepo.GetOrderByOrderNumber
GetRepo ==
    /\ cg.pc = "repo"
    /\ cg' = [cg EXCEPT !.pc = "write", !.found = RepoFind(db, cg.n)]
    /\ UNCHANGED <<rlVars, concVars, ordVars, gateVars, pgVars, rdVars, admits, noSweep, hx>>

\* lines 180-197: the tombstone or the order read is written to the cache
GetWrite ==
    /\ cg.pc = "write"
    /\ IF cg.found = Nil
       THEN /\ orderCache' = CacheEmpty(orderCache, cg.n, TRUE)
            /\ cg' = [cg EXCEPT !.pc = "done", !.err = "ErrEmptyCache"]
       ELSE /\ orderCache' = SaveOrderInCache(orderCache, cg.found[1], TRUE)
            /\ cg' = [cg EXCEPT !.pc = "done", !.order = cg.found]
    /\ UNCHANGED <<db, nextId, listCache, lastOp, prevOp>>
    /\ UNCHANGED <<rlVars, concVars, gateVars, pgVars, rdVars, admits, noSweep, hx>>

\* nothing admitted yet, no request handled yet
AuxInit ==
    /\ admits = [k \in Keys |-> <<>>]
    /\ noSweep = [lastAccess |-> <<>>, tokens |-> <<>>, key |-> None,
                  ret |-> FALSE, real |-> FALSE, existed |-> FALSE]
    /\ hx = [handler |-> None, user |-> None, username |-> None, n |-> None,
             status |-> 0, payload |-> Nil, before |-> Nil]

ExtInit == GateInit /\ PgIdle /\ RdInit /\ CgInit /\ AuxInit

vars == <<rlVars, concVars, ordVars, extVars>>

RLIdle ==
    /\ rate = 1
    /\ now = 0
    /\ lastAccess = <<>>
    /\ tokens = <<>>
    /\ rlLast = NoCall
    /\ burst = [k \in Keys |-> NoBurst]
    /\ ticks = 0
    /\ purged = {}

Init == RLInit /\ ConcInit /\ OrdInit /\ ExtInit

Next ==
    \/ \E key \in Keys : AllowCall(key) /\ UNCHANGED <<concVars, ordVars, extVars>>
    \/ Sweep /\ UNCHANGED <<concVars, ordVars, extVars>>
    \/ Tick /\ UNCHANGED <<concVars, ordVars, extVars>>

Spec == Init /\ [][Next]_vars

\* the same limiter with the clock running on in steps of a tick or a second
\* and every client calling again: the runtime's clock keeps advancing, and
\* each client sends its next request
LiveTick ==
    /\ ticks < MaxTicks
    /\ \E d \in {1, TicksPerSec} : now' = now + d
    /\ ticks' = ticks + 1
    /\ burst' = [k \in Keys |-> NoBurst]
    /\ UNCHANGED <<rate, lastAccess, tokens, rlLast, purged>>
    /\ UNCHANGED <<concVars, ordVars, extVars>>

NextLive ==
    \/ \E key \in Keys : AllowCall(key) /\ UNCHANGED <<concVars, ordVars, extVars>>
    \/ LiveTick

SpecLive ==
    /\ Init /\ [][NextLive]_vars
    /\ WF_vars(LiveTick)
    /\ \A key \in Keys :
          WF_vars(AllowCall(key) /\ UNCHANGED <<concVars, ordVars, extVars>>)

InitOrders == RLIdle /\ ConcInit /\ OrdInit /\ ExtInit

NextOrders ==
    \/ \E n \in OrderNumbers : DoGet(n) /\ UNCHANGED <<rlVars, concVars, extVars>>
    \/ \E n \in OrderNumbers : DoCreate(n) /\ UNCHANGED <<rlVars, concVars, extVars>>
    \/ DoUpdate /\ UNCHANGED <<rlVars, concVars, extVars>>
    \/ \E n \in OrderNumbers : DoDelete(n) /\ UNCHANGED <<rlVars, concVars, extVars>>
    \/ DoList /\ UNCHANGED <<rlVars, concVars, extVars>>
    \/ \E n \in OrderNumbers : ExpireOrderKey(n) /\ UNCHANGED <<rlVars, concVars, extVars>>
    \/ ExpireListKey /\ UNCHANGED <<rlVars, concVars, extVars>>

SpecOrders == InitOrders /\ [][NextOrders]_vars

NextConc ==
    \/ \E p \in Procs, key \in Keys : CallAllow(p, key) /\ UNCHANGED <<ordVars, extVars>>
    \/ \E p \in Procs : AcquireLock(p) /\ UNCHANGED <<ordVars, extVars>>
    \/ \E p \in Procs : ReadBucket(p) /\ UNCHANGED <<ordVars, extVars>>
    \/ \E p \in Procs : FirstVisit(p) /\ UNCHANGED <<ordVars, extVars>>
    \/ \E p \in Procs : RefillStep(p) /\ UNCHANGED <<ordVars, extVars>>
    \/ \E p \in Procs : SpendStep(p) /\ UNCHANGED <<ordVars, extVars>>
    \/ \E p \in Procs : ReleaseLock(p) /\ UNCHANGED <<ordVars, extVars>>
    \/ SweepLock /\ UNCHANGED <<ordVars, extVars>>
    \/ SweepScan /\ UNCHANGED <<ordVars, extVars>>
    \/ SweepUnlock /\ UNCHANGED <<ordVars, extVars>>
    \/ ConcTick /\ UNCHANGED <<ordVars, extVars>>

SpecConc == Init /\ [][NextConc]_vars

\* the goroutines at one instant: the clock does not move while they contend
NextLock ==
    \/ \E p \in Procs, key \in Keys : CallAllow(p, key) /\ UNCHANGED <<ordVars, extVars>>
    \/ \E p \in Procs : AcquireLock(p) /\ UNCHANGED <<ordVars, extVars>>
    \/ \E p \in Procs : ReadBucket(p) /\ UNCHANGED <<ordVars, extVars>>
    \/ \E p \in Procs : FirstVisit(p) /\ UNCHANGED <<ordVars, extVars>>
    \/ \E p \in Procs : RefillStep(p) /\ UNCHANGED <<ordVars, extVars>>
    \/ \E p \in Procs : SpendStep(p) /\ UNCHANGED <<ordVars, extVars>>
    \/ \E p \in Procs : ReleaseLock(p) /\ UNCHANGED <<ordVars, extVars>>
    \/ SweepLock /\ UNCHANGED <<ordVars, extVars>>
    \/ SweepScan /\ UNCHANGED <<ordVars, extVars>>
    \/ SweepUnlock /\ UNCHANGED <<ordVars, extVars>>

\* the scheduler runs every goroutine that can run, and sync.Mutex hands the
\* lock to a goroutine that keeps waiting for it (its starvation mode)
SpecConcFair ==
    /\ Init /\ [][NextLock]_vars
    /\ \A p \in Procs :
          /\ SF_vars(AcquireLock(p) /\ UNCHANGED <<ordVars, extVars>>)
          /\ WF_vars(ReadBucket(p) /\ UNCHANGED <<ordVars, extVars>>)
          /\ WF_vars(FirstVisit(p) /\ UNCHANGED <<ordVars, extVars>>)
          /\ WF_vars(RefillStep(p) /\ UNCHANGED <<ordVars, extVars>>)
          /\ WF_vars(SpendStep(p) /\ UNCHANGED <<ordVars, extVars>>)
          /\ WF_vars(ReleaseLock(p) /\ UNCHANGED <<ordVars, extVars>>)
    /\ WF_vars(SweepScan /\ UNCHANGED <<ordVars, extVars>>)
    /\ WF_vars(SweepUnlock /\ UNCHANGED <<ordVars, extVars>>)


NextGate ==
    \/ \E r \in Reqs, route \in Routes, ip \in Keys :
          Arrive(r, route, ip) /\ UNCHANGED concVars
    \/ \E r \in Reqs : CORSStep(r) /\ UNCHANGED concVars
    \/ \E r \in Reqs : PassStep(r) /\ UNCHANGED concVars
    \/ \E r \in Reqs : RateLimitStep(r) /\ UNCHANGED concVars
    \/ \E r \in Reqs : SessionAuthStep(r) /\ UNCHANGED concVars
    \/ \E r \in Reqs, n \in OrderNumbers : ControllerStep(r, n) /\ UNCHANGED concVars
    \/ \E r \in Reqs : PlainStep(r) /\ UNCHANGED concVars

SpecGate == Init /\ [][NextGate]_vars

MaxId == 2

NextById ==
    \/ \E n \in OrderNumbers : CreateOk(n) /\ UNCHANGED <<rlVars, concVars, extVars>>
    \/ \E n \in OrderNumbers : GetOk(n) /\ UNCHANGED <<rlVars, concVars, extVars>>
    \/ UpdateOk /\ UNCHANGED <<rlVars, concVars, extVars>>
    \/ \E n \in OrderNumbers : DeleteOk(n) /\ UNCHANGED <<rlVars, concVars, extVars>>
    \/ ListOk /\ UNCHANGED <<rlVars, concVars, extVars>>
    \/ \E id \in 1..MaxId : DoUpdateById(id) /\ UNCHANGED <<rlVars, concVars, extVars>>
    \/ \E id \in 1..MaxId : DoDeleteById(id) /\ UNCHANGED <<rlVars, concVars, extVars>>

SpecById == InitOrders /\ [][NextById]_vars

\* the other requests' calls are taken whole
NextListConc ==
    \/ \E a \in ListArgs : ReaderStart(a)
    \/ ReaderGetOrders
    \/ ReaderGetTotal
    \/ ReaderMiss
    \/ \E n \in OrderNumbers : CreateOk(n) /\ UNCHANGED <<rlVars, concVars, extVars>>
    \/ UpdateOk /\ UNCHANGED <<rlVars, concVars, extVars>>
    \/ \E n \in OrderNumbers : DeleteOk(n) /\ UNCHANGED <<rlVars, concVars, extVars>>
    \/ ListOk /\ UNCHANGED <<rlVars, concVars, extVars>>

SpecListConc == InitOrders /\ [][NextListConc]_vars

\* orders are created and keys expire while no read is under way; updates
\* and deletes, taken whole, run at any point of the read

NextGetConc ==
    \/ \E n \in OrderNumbers : GetStart(n)
    \/ GetCache
    \/ GetRepo
    \/ GetWrite
    \/ \E n \in OrderNumbers : cg.pc \in {"idle", "done"} /\ CreateOk(n) /\ UNCHANGED <<rlVars, concVars, extVars>>
    \/ UpdateOk /\ UNCHANGED <<rlVars, concVars, extVars>>
    \/ \E n \in OrderNumbers : DeleteOk(n) /\ UNCHANGED <<rlVars, concVars, extVars>>
    \/ \E n \in OrderNumbers : cg.pc \in {"idle", "done"} /\ ExpireOrderKey(n) /\ UNCHANGED <<rlVars, concVars, extVars>>

SpecGetConc == InitOrders /\ [][NextGetConc]_vars

\* the clock steps of the runs that count admissions, and the number of
\* admissions counted
MaxAdmits == 4

\* allow(key) with the admitted calls recorded: when, and whether the call
\* created the bucket; the same call is made on the limiter without cleanup
RateCall(key) ==
    LET res == Allow(lastAccess, tokens, rate, key, now)
        ns  == Allow(noSweep.lastAccess, noSweep.tokens, rate, key, now)
    IN /\ Len(admits["A"]) + Len(admits["B"]) < MaxAdmits
       /\ noSweep' = [lastAccess |-> ns.lastAccess, tokens |-> ns.tokens,
                      key |-> key, ret |-> ns.ret, real |-> res.ret,
                      existed |-> res.existed]
       /\ lastAccess' = res.lastAccess
       /\ tokens' = res.tokens
       /\ admits' = IF res.ret
                    THEN [admits EXCEPT ![key] =
                             Append(@, [at |-> now, fresh |-> ~res.existed])]
                    ELSE admits
       /\ UNCHANGED <<rate, now, rlLast, burst, ticks, purged>>
       /\ UNCHANGED <<concVars, ordVars, gateVars, pgVars, rdVars, cgVars, hx>>

RateTick ==
    /\ ticks < MaxTicks
    /\ \E d \in {1, TicksPerSec, RetentionTicks + 1} : now' = now + d
    /\ ticks' = ticks + 1
    /\ UNCHANGED <<rate, lastAccess, tokens, rlLast, burst, purged>>
    /\ UNCHANGED <<concVars, ordVars, extVars>>

NextRate ==
    \/ \E key \in Keys : RateCall(key)
    \/ Sweep /\ UNCHANGED <<concVars, ordVars, extVars>>
    \/ RateTick

SpecRate == Init /\ [][NextRate]_vars

\* ------------------------------------------- the order routes' handlers
\* the users that hold a session, and the usernames a request can name
SessionUsers == {AdminName, "bob", "eve"}

\* what a handler answered, taken from the service call it made last:
\* c.Payload is a 200, every c.AbortWithError here an http.StatusBadRequest
Answer(handler, user, username, n, before, op) ==
    [handler |-> handler, user |-> user, username |-> username, n |-> n,
     status |-> IF op.err = NoErr THEN 200 ELSE 400,
     payload |-> IF op.err = NoErr THEN op.order ELSE Nil,
     before |-> before]

\* OrderController.GetOrderByOrderNumber: order_number and username are
\* query parameters
HttpGet(user, username, n) ==
    /\ IF user # AdminName /\ user # username
       THEN /\ hx' = Answer("Get", user, username, n, RepoFind(db, n),
                           [err |-> "refused", order |-> Nil])
            /\ UNCHANGED ordVars
       ELSE /\ GetOk(n)
            /\ hx' = Answer("Get", user, username, n, RepoFind(db, n), lastOp')
    /\ UNCHANGED <<rlVars, concVars, gateVars, pgVars, rdVars, cgVars, admits, noSweep>>

\* OrderController.UpdateOrderByOrderNumber: username and order_number are
\* fields of the JSON body
HttpUpdate(user, username, req) ==
    /\ IF user # AdminName /\ user # username
       THEN /\ hx' = Answer("Update", user, username, req.orderNumber,
                             RepoFind(db, req.orderNumber),
                           [err |-> "refused", order |-> Nil])
            /\ UNCHANGED ordVars
       ELSE /\ Apply("Update", req.orderNumber,
                     UpdateOrderByOrderNumber(orderCache, listCache, db, nextId,
                                              req, NoFailure, {}))
            /\ hx' = Answer("Update", user, username, req.orderNumber,
                            RepoFind(db, req.orderNumber), lastOp')
    /\ UNCHANGED <<rlVars, concVars, gateVars, pgVars, rdVars, cgVars, admits, noSweep>>

\* OrderController.DeleteOrderByOrderNumber: reads the order first and
\* compares its Username with the username of the body; its payload is the
\* request, not the order
HttpDelete(user, username, n) ==
    LET g == GetOrderByOrderNumber(orderCache, db, n, NoFailure)
    IN /\ IF user # AdminName /\ user # username
          THEN /\ hx' = Answer("Delete", user, username, n, RepoFind(db, n),
                           [err |-> "refused", order |-> Nil])
               /\ UNCHANGED ordVars
          ELSE IF g.err # NoErr \/ g.order = Nil \/ g.order[1].username # username
          THEN /\ GetOk(n)
               /\ hx' = Answer("Delete", user, username, n, RepoFind(db, n),
                           [err |-> "refused", order |-> Nil])
          ELSE /\ Apply("Delete", n,
                        DeleteOrderByOrderNumber(g.oc, listCache, db, nextId, n,
                                                 NoFailure, {}))
               /\ hx' = Answer("Delete", user, username, n, RepoFind(db, n),
                               lastOp')
       /\ UNCHANGED <<rlVars, concVars, gateVars, pgVars, rdVars, cgVars, admits, noSweep>>

NextOwner ==
    \/ \E n \in OrderNumbers : CreateOk(n) /\ UNCHANGED <<rlVars, concVars, extVars>>
    \/ \E user, username \in SessionUsers, n \in OrderNumbers :
          HttpGet(user, username, n)
    \/ \E user, username \in SessionUsers, req \in UpdateRequests :
          HttpUpdate(user, username, req)
    \/ \E user, username \in SessionUsers, n \in OrderNumbers :
          HttpDelete(user, username, n)

SpecOwner == InitOrders /\ [][NextOwner]_vars

InitPaging ==
    RLIdle /\ ConcInit /\ OrdInit /\ GateInit /\ PgInit /\ RdInit /\ CgInit
    /\ AuxInit

\* ListOrders called with the request's page and page size, every
\* collaborator call succeeding
PgList(u) ==
    LET r == ListOrders(listCache, db, nextId, u, pgArgs[1], pgArgs[2], NoFailure)
    IN /\ listCache' = r.lc
       /\ lastOp' = [NoOp EXCEPT !.op = "List", !.n = u, !.err = r.err,
                                 !.lookup = r.lookup, !.list = r.list]
       /\ prevOp' = Brief(lastOp)
       /\ UNCHANGED <<db, nextId, orderCache>>
       /\ UNCHANGED <<pgArgs, pgCall>>
       /\ UNCHANGED <<rlVars, concVars, gateVars, rdVars, cgVars, admits, noSweep, hx>>

NextPaging ==
    \/ ListMiss
    \/ \E u \in Users : PgList(u)
    \/ \E n \in OrderNumbers : CreateOk(n) /\ UNCHANGED <<rlVars, concVars, extVars>>

SpecPaging == InitPaging /\ [][NextPaging]_vars

\* ------------------------------------------------------------------ claims

\* C1: every existing bucket holds between 0 and rate tokens, after any
\* sequence of allow() calls, clock advances and sweeps.
C1_TokensInRange ==
    /\ DOMAIN tokens = DOMAIN lastAccess
    /\ \A k \in DOMAIN tokens : 0 <= tokens[k] /\ tokens[k] <= rate

\* a refill whose sum exceeded the rate was capped and then spent
C1_Witness ==
    /\ rlLast.key \in DOMAIN tokens
    /\ rlLast.existed
    /\ rlLast.at = now
    /\ rlLast.before > 0
    /\ rlLast.before + TokensToAdd(rlLast.elapsed, rate) > rate
    /\ tokens[rlLast.key] = rate - 1

\* C2: of the N allow(key) calls made at the instant the bucket of a fresh
\* key is created, exactly min(N, rate) are admitted: call number i returns
\* true iff i <= rate.
C2_BurstAdmitsCapacity ==
    \A k \in Keys :
        burst[k].valid =>
            /\ burst[k].admitted = Min(burst[k].calls, rate)
            /\ (rlLast.key = k => rlLast.ret = (burst[k].calls <= rate))

\* the call after the rate-th one was made and rejected
C2_Witness ==
    \E k \in Keys :
        /\ burst[k].valid
        /\ burst[k].calls = rate + 1
        /\ burst[k].admitted = rate
        /\ rlLast.key = k
        /\ ~rlLast.ret

\* C9: right after the first allow(key) of a key without a bucket, the call
\* has returned true and the bucket holds rate - 1 tokens stamped with the
\* time of the call.
C9_FirstCallAdmitted ==
    (rlLast.key # None /\ ~rlLast.existed /\ rlLast.at = now) =>
        /\ rlLast.ret
        /\ rlLast.key \in DOMAIN tokens
        /\ rlLast.key \in DOMAIN lastAccess
        /\ tokens[rlLast.key] = rate - 1
        /\ lastAccess[rlLast.key] = rlLast.at

\* a first call made after the clock has moved (also after a purge)
C9_Witness ==
    /\ rlLast.key # None
    /\ ~rlLast.existed
    /\ rlLast.at = now
    /\ now > 0
    /\ tokens[rlLast.key] = rate - 1

C11_SweepPurgesIdle ==
    [][/\ Sweep =>
            /\ DOMAIN lastAccess' \subseteq DOMAIN lastAccess
            /\ DOMAIN tokens' \subseteq DOMAIN tokens
            /\ \A k \in DOMAIN lastAccess :
                  IF now - lastAccess[k] > RetentionSeconds * TicksPerSec
                  THEN k \notin DOMAIN lastAccess' /\ k \notin DOMAIN tokens'
                  ELSE /\ k \in DOMAIN lastAccess' /\ k \in DOMAIN tokens'
                       /\ lastAccess'[k] = lastAccess[k]
                       /\ tokens'[k] = tokens[k]
       /\ \A k \in purged :
             (k \notin purged' /\ rlLast'.key = k /\ rlLast'.purged) =>
                /\ rlLast'.ret
                /\ ~rlLast'.existed
                /\ tokens'[k] = rate - 1
                /\ lastAccess'[k] = now]_vars

\* a sweep deleted one key and kept the other, which was exactly 5 minutes
\* old, and the deleted key has been admitted again as a new one
C11_Witness ==
    /\ rlLast.key # None
    /\ rlLast.purged
    /\ rlLast.ret
    /\ rlLast.at = now
    /\ tokens[rlLast.key] = rate - 1
    /\ \E k \in DOMAIN lastAccess :
          k # rlLast.key /\ now - lastAccess[k] = RetentionSeconds * TicksPerSec

C13_RepoErrorNotCached ==
    [][/\ (lastOp'.op = "Get" /\ lastOp'.err = "ErrOrderFailed")
             => /\ lastOp'.order = Nil
                /\ lastOp'.repoGets = 1
                /\ orderCache' = orderCache
                /\ listCache' = listCache
                /\ db' = db
       /\ (/\ prevOp'.kind = "failed"
           /\ lastOp'.op = "Get"
           /\ lastOp'.n = prevOp'.n
           /\ lastOp'.lookup # "error")
             => /\ lastOp'.lookup = "absent"
                /\ lastOp'.repoGets = 1]_vars

\* an order is in the store; its read failed in the repository; the next read
\* queried the repository again and returned it
C13_Witness ==
    /\ prevOp.kind = "failed"
    /\ lastOp.op = "Get"
    /\ lastOp.n = prevOp.n
    /\ lastOp.lookup = "absent"
    /\ lastOp.repoGets = 1
    /\ lastOp.err = NoErr
    /\ lastOp.order # Nil
    /\ lastOp.order = RepoFind(db, lastOp.n)

\* C14 (as the specification states it): a GetOrderByOrderNumber that finds no
\* cache entry, reads the order from the repository and then fails to write
\* it to the cache returns the order it read, and no error.
C14_CacheWriteFailureTolerated ==
    (/\ lastOp.op = "Get"
     /\ lastOp.lookup = "absent"
     /\ lastOp.repoGets = 1
     /\ lastOp.cacheErr
     /\ lastOp.err # "ErrOrderFailed"
     /\ RepoFind(db, lastOp.n) # Nil)
    => /\ lastOp.err = NoErr
       /\ lastOp.order = RepoFind(db, lastOp.n)

\* C15: when DeleteOrderByOrderNumber(n) has returned nil, order:{n} is not in
\* the cache and the store has no live row for n; the GetOrderByOrderNumber(n)
\* that follows returns no order, and ErrEmptyCache unless its repository
\* query fails.
C15_DeletedNotServed ==
    /\ (lastOp.op = "Delete" /\ lastOp.err = NoErr)
          => /\ lastOp.n \notin DOMAIN orderCache
             /\ RepoFind(db, lastOp.n) = Nil
    /\ (prevOp.kind = "deleted" /\ lastOp.op = "Get" /\ lastOp.n = prevOp.n)
          => /\ lastOp.order = Nil
             /\ lastOp.lookup # "hit"
             /\ lastOp.err \in {"ErrEmptyCache", "ErrOrderFailed"}
             /\ lastOp.repoGets = 1

\* an order was created and deleted, and the read after the delete went to
\* the repository and found nothing
C15_Witness ==
    /\ prevOp.kind = "deleted"
    /\ lastOp.op = "Get"
    /\ lastOp.n = prevOp.n
    /\ lastOp.lookup = "absent"
    /\ lastOp.repoGets = 1
    /\ lastOp.order = Nil
    /\ lastOp.err = "ErrEmptyCache"
    /\ db[lastOp.n] # Nil
    /\ db[lastOp.n][1].deleted

\* C16 (as the specification states it): on a list-cache miss ListOrders
\* calls orderRepo.List with offset (page' - 1) * size' and limit size', where
\* page' is 1 for page <= 0 and page otherwise, and size' is 10 for
\* pageSize <= 0, 100 for pageSize > 100 and pageSize otherwise, whatever
\* integers page and pageSize are.
C16_PaginationNormalized ==
    pgCall # Nil =>
        LET page  == IF pgArgs[1] <= 0 THEN 1 ELSE pgArgs[1]
            size  == IF pgArgs[2] <= 0 THEN 10
                     ELSE IF pgArgs[2] > 100 THEN 100 ELSE pgArgs[2]
        IN /\ pgCall[1].page = page
           /\ pgCall[1].size = size
           /\ pgCall[1].offset = (page - 1) * size
           /\ pgCall[1].limit = size

\* C17 (as the specification states it): whenever order:{n} holds the
\* empty-string tombstone, the store has no live order with order number n.
C17_TombstoneSound ==
    \A n \in DOMAIN orderCache :
        orderCache[n] = Tombstone => RepoFind(db, n) = Nil

\* C3: allow() is atomic under concurrency. Whenever the mutex is free the
\* bucket maps equal those of the serial execution of the same calls and
\* sweeps in lock order, every completed call returned what it returns in that
\* serial execution, and the calls on one key at one instant that were
\* admitted never exceed the rate.
C3_AllowSerializable ==
    /\ mu = None => (lastAccess = serLA /\ tokens = serTok)
    /\ \A p \in Procs : pc[p] = "done" => lret[p] = serRet[p]
    /\ \A k \in Keys : admitted[k] <= rate

\* two goroutines called allow() on one key at one instant, one of them had to
\* wait for the mutex while the other was inside, and the later one was
\* rejected for want of tokens
C3_Witness ==
    /\ pc["g1"] = "done" /\ pc["g2"] = "done"
    /\ lkey["g1"] = lkey["g2"]
    /\ lnow["g1"] = lnow["g2"]
    /\ lret["g1"] # lret["g2"]
    /\ admitted[lkey["g1"]] = rate
    /\ mu = None

Mutations == {"Create", "Update", "Delete"}

\* C4: negative caching. A GetOrderByOrderNumber that finds the order number
\* neither in the cache nor in the store queries the repository once, returns
\* no order (ErrEmptyCache) and leaves the empty-string tombstone at
\* order:{n} when its SetWithExpire succeeds; the Get that follows it, its
\* Redis read succeeding, is answered from the tombstone: no order, no
\* repository query.
C4_NegativeCaching ==
    /\ (/\ lastOp.op = "Get"
        /\ lastOp.lookup = "absent"
        /\ lastOp.err # "ErrOrderFailed"
        /\ RepoFind(db, lastOp.n) = Nil)
       => /\ lastOp.order = Nil
          /\ lastOp.err = "ErrEmptyCache"
          /\ lastOp.repoGets = 1
          /\ ~lastOp.cacheErr =>
                /\ lastOp.n \in DOMAIN orderCache
                /\ orderCache[lastOp.n] = Tombstone
    /\ (/\ prevOp.kind = "notfound"
        /\ lastOp.op = "Get"
        /\ lastOp.n = prevOp.n
        /\ lastOp.lookup # "error")
       => /\ lastOp.lookup = "tombstone"
          /\ lastOp.order = Nil
          /\ lastOp.repoGets = 0

\* the second of two consecutive reads of an order number the store lacks
C4_Witness ==
    /\ prevOp.kind = "notfound"
    /\ lastOp.op = "Get"
    /\ lastOp.n = prevOp.n
    /\ lastOp.lookup = "tombstone"
    /\ lastOp.repoGets = 0
    /\ lastOp.order = Nil
    /\ RepoFind(db, lastOp.n) = Nil
    /\ orderCache[lastOp.n] = Tombstone

\* C5 (as the specification states it): once a create, update or delete has
\* been applied to the store, no order_list:* key written before it is left in the cache.
C5_ListCacheInvalidated ==
    (lastOp.op \in Mutations /\ lastOp.wrote) => DOMAIN listCache = {}

\* C6 (as the specification states it): a mutation touches no cache entry
\* before its relational write has succeeded: when the write was not applied, the list cache is as
\* it was and the order cache is as the mutation's lookup left it.
C6_WriteBeforeCache ==
    [][(lastOp'.op \in Mutations /\ ~lastOp'.wrote)
         => /\ listCache' = listCache
            /\ \E f \in Failures :
                  orderCache' = GetOrderByOrderNumber(orderCache, db, lastOp'.n, f).oc]_vars

\* C7: the GetOrderByOrderNumber(n) that follows a successful CreateOrder or
\* UpdateOrderByOrderNumber of n, its Redis read succeeding and the key not
\* expired, is a cache hit that returns the order just written and makes no
\* repository query.
C7_ReadYourWrites ==
    (/\ prevOp.kind \in {"created", "updated"}
     /\ lastOp.op = "Get"
     /\ lastOp.n = prevOp.n
     /\ lastOp.lookup # "error")
    => /\ lastOp.lookup = "hit"
       /\ lastOp.repoGets = 0
       /\ lastOp.err = NoErr
       /\ lastOp.order = prevOp.order
       /\ lastOp.order = RepoFind(db, lastOp.n)

\* an order read back right after an update changed its price
C7_Witness ==
    /\ prevOp.kind = "updated"
    /\ lastOp.op = "Get"
    /\ lastOp.n = prevOp.n
    /\ lastOp.lookup = "hit"
    /\ lastOp.repoGets = 0
    /\ lastOp.order = prevOp.order
    /\ lastOp.order # Nil
    /\ lastOp.order[1].totalPrice = MaxPrice

\* C8: a GetOrderByOrderNumber that reads a non-empty order:{n} returns the
\* order deserialized from it, queries no repository and writes no cache key.
C8_CacheHit ==
    [][(/\ lastOp'.op = "Get"
        /\ lastOp'.lookup # "error"
        /\ lastOp'.n \in DOMAIN orderCache
        /\ orderCache[lastOp'.n] # Tombstone)
       => /\ lastOp'.lookup = "hit"
          /\ lastOp'.order = Some(Unmarshal(orderCache[lastOp'.n]))
          /\ lastOp'.err = NoErr
          /\ lastOp'.repoGets = 0
          /\ orderCache' = orderCache
          /\ listCache' = listCache
          /\ db' = db]_vars

\* a hit on an entry the lookup of an earlier call had cached
C8_Witness ==
    /\ lastOp.op = "Get"
    /\ lastOp.lookup = "hit"
    /\ lastOp.repoGets = 0
    /\ prevOp.kind = "other"
    /\ lastOp.n \in DOMAIN orderCache
    /\ lastOp.order = Some(Unmarshal(orderCache[lastOp.n]))

\* C18 (as the specification states it): once a mutating operation of the
\* service, those by id included, has written to the store, no order_list:*
\* key is left, and order:{n} of the order it wrote is absent or holds the
\* order as the store now has it.
C18_EveryMutationInvalidates ==
    (lastOp.op \in Mutations \cup {"UpdateById", "DeleteById"} /\ lastOp.wrote) =>
        /\ DOMAIN listCache = {}
        /\ lastOp.n \in DOMAIN orderCache =>
              /\ orderCache[lastOp.n] # Tombstone
              /\ Some(Unmarshal(orderCache[lastOp.n])) = RepoFind(db, lastOp.n)

\* C19 (as the specification states it): a ListOrders cache hit returns an
\* orders array and a total that one cache write stored together, whatever
\* other requests do between its two field lookups. Every write stores the
\* length of the page as the total.
C19_ListHitConsistent ==
    /\ \A key \in DOMAIN listCache :
          listCache[key].total = Len(listCache[key].orders)
    /\ (rd.pc = "done" /\ rd.lookup = "hit")
          => rd.list[1].total = Len(rd.list[1].orders)

\* C20 (as stated): when every request has completed, a non-empty order:{n}
\* is the order as the store now has it; in particular none is left for an
\* order the store has deleted. No collaborator call fails.
C20_CacheConverges ==
    cg.pc \in {"idle", "done"} =>
        \A n \in DOMAIN orderCache :
            orderCache[n] # Tombstone =>
                Some(Unmarshal(orderCache[n])) = RepoFind(db, n)

\* C21 (as stated): a CreateOrder, UpdateOrderByOrderNumber or
\* DeleteOrderByOrderNumber that returns an error, whatever the cause, leaves
\* the store as it was before the call.
C21_ErrorAtomicity ==
    [][(lastOp'.op \in Mutations /\ lastOp'.err # NoErr) => db' = db]_vars

\* C22 (as stated): after a ListOrders call that succeeded, whatever page and
\* pageSize it was given, the page is cached under the key the lookup uses: a
\* second call with the same arguments, nothing else happening in between, is
\* a cache hit and queries no repository.
C22_ListKeyStable ==
    (lastOp.op = "List" /\ lastOp.err = NoErr) =>
        LET again == ListOrders(listCache, db, nextId, lastOp.n,
                                pgArgs[1], pgArgs[2], NoFailure)
        IN /\ again.lookup = "hit"
           /\ again.repoLists = 0
           /\ again.list = lastOp.list

\* C23: the rate bound. For every key, the allow() calls that returned true
\* within any interval of T seconds number at most rate + floor(T * rate),
\* whatever the calls and whenever cleanup runs. It is enough to look at the
\* intervals that begin and end with an admitted call.
C23_RateBound ==
    \A k \in Keys :
        \A i, j \in 1..Len(admits[k]) :
            i <= j =>
                j - i + 1 <= rate + ((admits[k][j].at - admits[k][i].at) * rate)
                                       \div TicksPerSec

\* an interval of positive length filled to the bound, opened by the call
\* that re-created a bucket cleanup had deleted
C23_Witness ==
    \E k \in Keys :
        \E i, j \in 1..Len(admits[k]) :
            /\ 1 < i /\ i < j
            /\ admits[k][i].fresh
            /\ admits[k][j].at > admits[k][i].at
            /\ j - i + 1 = rate + ((admits[k][j].at - admits[k][i].at) * rate)
                                     \div TicksPerSec

\* C24: no starvation. An allow(key) made at least 1/rate seconds after the
\* bucket's lastAccess returns true, and a client that was rejected while the
\* clock has a second still to run, and that calls again at whatever spacing,
\* is admitted in the end.
C24_NoStarvation ==
    /\ [](\A k \in Keys :
            (rlLast.key = k /\ rlLast.existed
                /\ rlLast.elapsed * rate >= TicksPerSec) => rlLast.ret)
    /\ \A k \in Keys :
          (rlLast.key = k /\ ~rlLast.ret /\ ticks + TicksPerSec <= MaxTicks)
              ~> (rlLast.key = k /\ rlLast.ret)

\* a client rejected twice, the second time less than 1/rate seconds after
\* the first, and admitted once 1/rate seconds had passed since lastAccess
C24_Witness ==
    \E k \in Keys :
        /\ rlLast.key = k /\ rlLast.ret
        /\ rlLast.existed
        /\ rlLast.before = 0
        /\ rlLast.refilled = 1
        /\ rlLast.elapsed * rate >= TicksPerSec
        /\ rlLast.elapsed > 1
        /\ rlLast.elapsed < RetentionTicks

\* C25: cleanup is invisible to callers. Every allow() call returns what the
\* same call returns on a limiter that received the same calls at the same
\* times and was never swept, and a bucket that exists holds the tokens and
\* the lastAccess it holds there.
C25_SweepInvisible ==
    /\ noSweep.real = noSweep.ret
    /\ \A k \in DOMAIN lastAccess :
          /\ lastAccess[k] = noSweep.lastAccess[k]
          /\ tokens[k] = noSweep.tokens[k]

\* a bucket was swept and created again by a later call, and that bucket,
\* drained since, has rejected a call which the limiter without cleanup
\* rejects as well
C25_Witness ==
    /\ noSweep.key \in purged
    /\ noSweep.key \in DOMAIN lastAccess
    /\ noSweep.existed
    /\ ~noSweep.real
    /\ ~noSweep.ret
    /\ \E i \in 2..Len(admits[noSweep.key]) : admits[noSweep.key][i].fresh

\* C26: the lazy refill frame. An allow(key) on an existing bucket that adds
\* no token (floor(elapsed * rate) = 0) leaves lastAccess[key] as it was, one
\* that adds tokens advances it to now, and a rejected call leaves both the
\* tokens and lastAccess of the key as they were.
C26_LazyRefillFrame ==
    [][\A k \in Keys :
          (AllowCall(k) /\ k \in DOMAIN lastAccess) =>
              /\ ((now - lastAccess[k]) * rate) \div TicksPerSec = 0
                    => lastAccess'[k] = lastAccess[k]
              /\ ((now - lastAccess[k]) * rate) \div TicksPerSec > 0
                    => lastAccess'[k] = now
              /\ ~rlLast'.ret
                    => /\ tokens'[k] = tokens[k]
                       /\ lastAccess'[k] = lastAccess[k]
              /\ \A o \in DOMAIN lastAccess \ {k} :
                    lastAccess'[o] = lastAccess[o] /\ tokens'[o] = tokens[o]]_vars

\* a call rejected some time after the last refill: the time elapsed since
\* then is still counted from the old lastAccess
C26_Witness ==
    /\ rlLast.key \in DOMAIN lastAccess
    /\ rlLast.existed
    /\ ~rlLast.ret
    /\ rlLast.at = now
    /\ rlLast.elapsed > 0
    /\ lastAccess[rlLast.key] = now - rlLast.elapsed
    /\ tokens[rlLast.key] = 0

\* C27: every order_list:{username}:{page}:{pageSize} key in Redis is a hash
\* with both fields, orders and total, and carries an expiry, in every
\* reachable state, whichever collaborator calls fail.
C27_ListEntryWhole ==
    \A key \in DOMAIN listCache :
        /\ {"orders", "total"} \subseteq DOMAIN listCache[key]
        /\ "ttl" \in DOMAIN listCache[key]
        /\ listCache[key].ttl > 0

\* a list page is cached, and the ListOrders call that followed it for
\* another page had its HashSet fail and left no key behind
C27_Witness ==
    /\ lastOp.op = "List"
    /\ lastOp.lookup = "miss"
    /\ lastOp.err = NoErr
    /\ Cardinality(DOMAIN listCache) = 1
    /\ \E a \in ListArgs :
          /\ a[1] = lastOp.n
          /\ ListKey(a[1], NormPage(a[2]), NormPageSize(a[3])) \notin DOMAIN listCache
    /\ \E key \in DOMAIN listCache :
          /\ key[1] # lastOp.n
          /\ listCache[key].ttl = ListCacheSeconds
          /\ listCache[key].total = Len(listCache[key].orders)

\* C28: a ListOrders call that misses the list cache and whose repository
\* query succeeds returns the repository's orders and total and no error,
\* whether its list-cache write succeeds or fails.
C28_ListWriteFailureSilent ==
    (/\ lastOp.op = "List"
     /\ lastOp.lookup = "miss"
     /\ lastOp.err # "ErrOrderListFailed")
    => /\ lastOp.err = NoErr
       /\ \E a \in ListArgs :
             /\ a[1] = lastOp.n
             /\ lastOp.list =
                   Some(RepoList(db, nextId, a[1],
                                 (NormPage(a[2]) - 1) * NormPageSize(a[3]),
                                 NormPageSize(a[3])))

\* the page of an existing order was returned by a call whose HashSet failed:
\* the key it would have written is not there
C28_Witness ==
    /\ lastOp.op = "List"
    /\ lastOp.lookup = "miss"
    /\ lastOp.err = NoErr
    /\ lastOp.list # Nil
    /\ Len(lastOp.list[1].orders) = 1
    /\ lastOp.list[1].total = 1
    /\ \A key \in DOMAIN listCache : key[1] # lastOp.n

\* C29 (as stated): order ownership. A request of a session user other than
\* admin for an order whose Username is not the session user's is answered
\* without the order and leaves the order in the store as it was.
C29_OrderOwnership ==
    (/\ hx.handler # None
     /\ hx.user # AdminName
     /\ hx.before # Nil
     /\ hx.before[1].username # hx.user)
    => /\ hx.payload = Nil
       /\ hx.status = 400
       /\ RepoFind(db, hx.n) = hx.before

\* C30: every allow() call returns. A goroutine that has called allow()
\* reaches its return, whatever the cleanup goroutine and the other callers
\* do, and the mutex, once held, is released again.
C30_AllowReturns ==
    /\ \A p \in Procs : (pc[p] # "idle") ~> (pc[p] = "done")
    /\ (mu # None) ~> (mu = None)

\* a caller has returned from allow(), and another one waits for the mutex
\* while the cleanup goroutine holds it
C30_Witness ==
    \E p \in Procs :
        /\ pc[p] = "done"
        /\ mu = Sweeper
        /\ spc = "scan"
        /\ lkey[p] \in DOMAIN lastAccess
        /\ \E q \in Procs \ {p} : pc[q] = "lock"

====
